---- MODULE Spec2Model ----
\* Model of aquestalk.py: the AquesTalk ctypes wrapper (synthe / synthe_raw),
\* AquesTalkError, and the loader functions load / load_from_path.
EXTENDS Integers, Sequences, FiniteSets, TLC

VARIABLES
    fs,        \* file system: path -> md5 digest of the file stored there
    ld,        \* outcome of the most recent load / load_from_path call
    pc,        \* per thread: position inside synthe / synthe_raw
    op,        \* per thread: entry point called ("synthe" or "synthe_raw")
    koe,       \* per thread: argument koe of the running call
    speed,     \* per thread: argument speed of the running call
    c_wav,     \* per thread: local c_wav of synthe_raw (0 is None / NULL)
    size,      \* per thread: local size of synthe_raw
    wav_raw,   \* per thread: local wav_raw of synthe_raw
    result,    \* per thread: what the last call returned or raised
    trace,     \* per thread: foreign events of the current call, in order
    given,     \* per thread: what the foreign AquesTalk_Synthe of this call produced
    heap,      \* foreign heap: address -> buffer allocated by AquesTalk_Synthe
    calls,     \* number of calls started so far
    badFree,   \* AquesTalk_FreeWave was handed a pointer that is not a live buffer
    badRead,   \* a released or foreign buffer was read
    crossUse   \* a call read or released a buffer obtained by another call

vars == <<fs, ld, pc, op, koe, speed, c_wav, size, wav_raw, result, trace,
          given, heap, calls, badFree, badRead, crossUse>>

loadVars == <<fs, ld>>
syntheVars == <<pc, op, koe, speed, c_wav, size, wav_raw, result, trace,
                given, heap, calls, badFree, badRead, crossUse>>

\* ------------------------------------------------------------------ bounds
MaxCalls == 2
MaxAddr == 2

Threads == {"t1", "t2"}
Addrs == 1..MaxAddr
NULL == 0
NoThread == "none"

\* ------------------------------------------------------- voice types, table
VOICE_TYPES == {"f1", "f2", "m1", "m2", "r1", "dvd", "jgr", "imd1"}

\* VoiceType[name]: the enum member of that name (members are modelled by name)
VoiceType == [n \in VOICE_TYPES |-> n]

DLL_MD5_DICT ==
    [d \in {"d09ba89e04fc6a848377cb695b7c227a",
            "23bd3bbfe89e7bb0f92e5e3ed841cec4",
            "f97a031451220238b21ada12dd2ba6b7",
            "8bfacc9e1c9d6f1a1f6803739a9ed7d6",
            "950cb2c4a9493ff3af7906fdb02b523b",
            "d4491b6ff6aab7e6f3a19dad369d0432",
            "1a69c64175f46271f9f491890b265762",
            "cd431c8c86c1566e73cbbb166047b8a9",
            "54f15b467cbf215884d29a0ad39a9df3",
            "e352165e9da54e255c3c25a33cb85aaa"} |->
        CASE d = "d09ba89e04fc6a848377cb695b7c227a" -> "f1"
          [] d = "23bd3bbfe89e7bb0f92e5e3ed841cec4" -> "f1"
          [] d = "f97a031451220238b21ada12dd2ba6b7" -> "f1"
          [] d = "8bfacc9e1c9d6f1a1f6803739a9ed7d6" -> "f2"
          [] d = "950cb2c4a9493ff3af7906fdb02b523b" -> "m1"
          [] d = "d4491b6ff6aab7e6f3a19dad369d0432" -> "m2"
          [] d = "1a69c64175f46271f9f491890b265762" -> "r1"
          [] d = "cd431c8c86c1566e73cbbb166047b8a9" -> "dvd"
          [] d = "54f15b467cbf215884d29a0ad39a9df3" -> "jgr"
          [] d = "e352165e9da54e255c3c25a33cb85aaa" -> "imd1"]

\* ------------------------------------------------------------- file system
NoFile == "no such file"

\* digests of the files the environment may hold: two registered for f1, the
\* one registered for f2, and one that is not registered
FileDigests == {"d09ba89e04fc6a848377cb695b7c227a",
                "f97a031451220238b21ada12dd2ba6b7",
                "8bfacc9e1c9d6f1a1f6803739a9ed7d6",
                "00000000000000000000000000000000",
                NoFile}

PackageDir == "aquestalk"

\* os.path.join(dir, name, file)
os_path_join(dir, name, file) == <<dir, name, file>>

Paths == {os_path_join(PackageDir, "f1", "AquesTalk.dll"),
          os_path_join(PackageDir, "f2", "AquesTalk.dll"),
          os_path_join("opt", "voices", "custom.dll")}

\* what is stored at a path (paths outside the modelled ones hold nothing)
FileAt(path) == IF path \in DOMAIN fs THEN fs[path] ELSE NoFile

\* _get_md5_from_file(name): the hex digest of the whole file
get_md5_from_file(name) == FileAt(name)

\* ------------------------------------------------------------------ loader
NoPath == <<>>
NoVoice == "None"

\* AquesTalk.__init__(name, voice_type): ctypes.windll.LoadLibrary(name) fails
\* with OSError when nothing loadable is at name; otherwise the instance keeps
\* voice_type as given
AquesTalk_init(name, voice_type) ==
    IF FileAt(name) = NoFile
    THEN [outcome |-> "OSError", voice_type |-> NoVoice]
    ELSE [outcome |-> "ok", voice_type |-> voice_type]

\* load_from_path(path, voice_type, check_voice_type)
load_from_path(path, voice_type, check_voice_type) ==
    IF ~check_voice_type
    THEN LET md5 == get_md5_from_file(path) IN
         IF md5 = NoFile
         THEN [outcome |-> "FileNotFoundError", voice_type |-> NoVoice,
               consulted |-> FALSE]
         ELSE IF md5 \notin DOMAIN DLL_MD5_DICT
         THEN [outcome |-> "KeyError", voice_type |-> NoVoice,
               consulted |-> TRUE]
         ELSE LET vt == IF DLL_MD5_DICT[md5] # voice_type
                        THEN DLL_MD5_DICT[md5] ELSE voice_type
              IN AquesTalk_init(path, vt) @@ [consulted |-> TRUE]
    ELSE AquesTalk_init(path, voice_type) @@ [consulted |-> FALSE]

\* load(voice_type, check_voice_type); the argument is a VoiceType member or a
\* name to look up in VoiceType
load(arg, check_voice_type) ==
    IF ~arg.isEnum /\ arg.name \notin DOMAIN VoiceType
    THEN [outcome |-> "KeyError", voice_type |-> NoVoice, consulted |-> FALSE,
          path |-> NoPath, hint |-> NoVoice]
    ELSE LET voice_type == IF arg.isEnum THEN arg.name ELSE VoiceType[arg.name]
             path == os_path_join(PackageDir, voice_type, "AquesTalk.dll")
         IN load_from_path(path, voice_type, check_voice_type)
            @@ [path |-> path, hint |-> voice_type]

LoadArgs == {a \in [isEnum : BOOLEAN, name : VOICE_TYPES \cup {"bogus"}] :
                a.isEnum => a.name \in VOICE_TYPES}

NoLoad == [call |-> "none", path |-> NoPath, hint |-> NoVoice, flag |-> FALSE,
           outcome |-> "none", voice_type |-> NoVoice, consulted |-> FALSE]

\* a caller invokes load_from_path(path, voice_type, check_voice_type)
LoadFromPath ==
    \E path \in Paths, voice_type \in VOICE_TYPES, check \in BOOLEAN :
        /\ ld' = load_from_path(path, voice_type, check)
                 @@ [call |-> "load_from_path", path |-> path,
                     hint |-> voice_type, flag |-> check]
        /\ UNCHANGED <<fs, syntheVars>>

\* a caller invokes load(voice_type, check_voice_type)
Load ==
    \E arg \in LoadArgs, check \in BOOLEAN :
        /\ ld' = load(arg, check) @@ [call |-> "load", flag |-> check]
        /\ UNCHANGED <<fs, syntheVars>>

\* ---------------------------------------------------------- text encoding
\* characters of koe: "a" (ASCII), "hiragana_a" (full-width), "halfwidth_a"
\* (half-width katakana) have Shift_JIS codes; any other character has none
\* the Shift_JIS byte sequence of each encodable character
SJIS == [c \in {"a", "hiragana_a", "halfwidth_a"} |->
            CASE c = "a" -> <<97>>
              [] c = "hiragana_a" -> <<130, 160>>
              [] c = "halfwidth_a" -> <<177>>]

RECURSIVE encode_replace(_)
\* variant: str.encode('sjis', errors='replace') puts "?" for such a character
encode_replace(s) ==
    IF s = <<>> THEN [ok |-> TRUE, bytes |-> <<>>]
    ELSE LET r == encode_replace(Tail(s)) IN
         [ok |-> TRUE,
          bytes |-> (IF Head(s) \in DOMAIN SJIS THEN SJIS[Head(s)] ELSE <<63>>)
                    \o r.bytes]

RECURSIVE encode(_)
\* str.encode('sjis'): the bytes, or UnicodeEncodeError at the first character
\* without a code
encode(s) ==
    IF s = <<>> THEN [ok |-> TRUE, bytes |-> <<>>]
    ELSE IF Head(s) \notin DOMAIN SJIS THEN [ok |-> FALSE, bytes |-> <<>>]
    ELSE LET r == encode(Tail(s)) IN
         IF r.ok THEN [ok |-> TRUE, bytes |-> SJIS[Head(s)] \o r.bytes]
         ELSE r

\* the texts callers pass: two that Shift_JIS can encode (one and two bytes per
\* character) and two with a character it cannot, first or after a good one
Koes == {<<"a">>, <<"hiragana_a", "a">>, <<"a", "euro">>, <<"hangul_ga">>}
\* speed is handed to the foreign call as given; callers use the default
Speeds == {100}

\* ---------------------------------------------------------- AquesTalkError
MessageCodes == (100..111) \cup (200..204)

\* AquesTalkError.messages
messages ==
    [c \in MessageCodes |->
        CASE c = 100 -> "other error"
          [] c = 101 -> "out of memory"
          [] c = 102 -> "undefined reading symbol in the phonetic string"
          [] c = 103 -> "negative duration in the prosody data"
          [] c = 104 -> "internal error (undefined delimiter code)"
          [] c = 105 -> "undefined reading symbol in the phonetic string"
          [] c = 106 -> "malformed tag in the phonetic string"
          [] c = 107 -> "tag too long (or [>] not found)"
          [] c = 108 -> "invalid value inside a tag"
          [] c = 109 -> "cannot play WAVE (sound driver)"
          [] c = 110 -> "cannot play WAVE (sound driver, asynchronous)"
          [] c = 111 -> "no data to utter"
          [] c = 200 -> "phonetic string too long"
          [] c = 201 -> "too many reading symbols in one phrase"
          [] c = 202 -> "phonetic string too long (internal buffer over 1)"
          [] c = 203 -> "out of heap memory"
          [] c = 204 -> "phonetic string too long (internal buffer over 1)"]

UnknownMessage == "unknown error"

\* variant: a code outside the table gets the table's "other error" entry
AquesTalkError_OtherForUnknown(err) ==
    [kind |-> "AquesTalkError",
     err |-> err,
     message |-> IF err \in DOMAIN messages THEN messages[err] ELSE messages[100],
     value |-> <<>>]

\* AquesTalkError.__init__(err)
AquesTalkError(err) ==
    [kind |-> "AquesTalkError",
     err |-> err,
     message |-> IF err \in DOMAIN messages THEN messages[err] ELSE UnknownMessage,
     value |-> <<>>]

\* the values the foreign library may write to the size field with a null pointer
ErrorCodes == MessageCodes \cup {-1, 0, 999}

\* ------------------------------------------------------------ WAV container
RIFF == <<82, 73, 70, 70>>
WAVE == <<87, 65, 86, 69>>
FMT == <<102, 109, 116, 32>>
DATA == <<100, 97, 116, 97>>

\* a canonical 8 kHz, 16 bit, mono PCM file holding one frame
ValidWav ==
    RIFF \o <<38, 0, 0, 0>> \o WAVE
    \o FMT \o <<16, 0, 0, 0>> \o <<1, 0>> \o <<1, 0>> \o <<64, 31, 0, 0>>
    \o <<128, 62, 0, 0>> \o <<2, 0>> \o <<16, 0>>
    \o DATA \o <<2, 0, 0, 0>> \o <<0, 0>>

\* what the foreign library may leave in a buffer it reports as a success: a
\* WAV file, a cut-off header, bytes that are no RIFF file, nothing
Buffers == {ValidWav, SubSeq(ValidWav, 1, 6),
            <<0, 1, 2, 3, 4, 5, 6, 7, 8, 9, 10, 11>>, <<>>}

\* what a read of released memory may yield
StaleReads == {<<>>, <<221, 221>>}

Min(a, b) == IF a < b THEN a ELSE b
Tag(b, p) == SubSeq(b, p, p + 3)
LE16(b, p) == b[p] + 256 * b[p + 1]
LE32(b, p) == b[p] + 256 * b[p + 1] + 65536 * b[p + 2] + 16777216 * b[p + 3]

RECURSIVE read_chunks(_, _, _, _)
\* the chunk loop of wave.Wave_read.initfp over b[pos..end]
read_chunks(b, end, pos, fmt_chunk_read) ==
    IF pos + 7 > end THEN "wave.Error"
    ELSE LET name == Tag(b, pos)
             chunksize == LE32(b, pos + 4)
             avail == Min(chunksize, end - (pos + 7))
             next == pos + 8 + chunksize + (chunksize % 2)
         IN IF name = FMT
            THEN IF avail < 14 THEN "EOFError"
                 ELSE IF LE16(b, pos + 8) # 1 THEN "wave.Error"
                 ELSE IF avail < 16 THEN "EOFError"
                 ELSE IF LE16(b, pos + 10) = 0 THEN "wave.Error"
                 ELSE IF (LE16(b, pos + 22) + 7) \div 8 = 0 THEN "wave.Error"
                 ELSE read_chunks(b, end, next, TRUE)
            ELSE IF name = DATA
            THEN IF fmt_chunk_read THEN "Wave_read" ELSE "wave.Error"
            ELSE read_chunks(b, end, next, fmt_chunk_read)

\* wave.open(io.BytesIO(b), 'rb'): "Wave_read" or the exception raised
wave_open(b) ==
    IF Len(b) < 8 THEN "EOFError"
    ELSE IF Tag(b, 1) # RIFF THEN "wave.Error"
    ELSE LET end == Min(Len(b), 8 + LE32(b, 5)) IN
         IF end < 12 \/ Tag(b, 9) # WAVE THEN "wave.Error"
         ELSE read_chunks(b, end, 13, FALSE)

\* ------------------------------------------------------- synthe, synthe_raw
NoResult == [kind |-> "none", err |-> 0, message |-> "", value |-> <<>>]
NoGiven == [ptr |-> NULL, size |-> 0, data |-> <<>>]
FreeCell == [live |-> FALSE, data |-> <<>>, owner |-> NoThread]

Raised(kind) == [kind |-> kind, err |-> 0, message |-> "", value |-> <<>>]
Returned(kind, bytes) == [kind |-> kind, err |-> 0, message |-> "", value |-> bytes]

\* one step across the foreign boundary: the entry point, the pointer, the
\* bytes passed or read, and the integer passed
Event(ev, ptr, bytes, n) == [ev |-> ev, ptr |-> ptr, bytes |-> bytes, n |-> n]

\* variant: c_wav[:size - 1], one byte short
slice_short(data, n) == SubSeq(data, 1, n - 1)

\* c_wav[:size] on a ctypes pointer: the first size bytes at the address
slice(data, n) == SubSeq(data, 1, n)

\* the frame of the call is gone: its locals no longer exist
DropFrame(t) ==
    /\ koe' = [koe EXCEPT ![t] = <<>>]
    /\ speed' = [speed EXCEPT ![t] = 0]
    /\ c_wav' = [c_wav EXCEPT ![t] = NULL]
    /\ size' = [size EXCEPT ![t] = 0]
    /\ wav_raw' = [wav_raw EXCEPT ![t] = <<>>]

\* thread t calls synthe(koe, speed) or synthe_raw(koe, speed) on the instance
Call(t) ==
    /\ pc[t] \in {"idle", "done"}
    /\ calls < MaxCalls
    /\ \E o \in {"synthe", "synthe_raw"}, k \in Koes, sp \in Speeds :
        /\ op' = [op EXCEPT ![t] = o]
        /\ koe' = [koe EXCEPT ![t] = k]
        /\ speed' = [speed EXCEPT ![t] = sp]
    /\ pc' = [pc EXCEPT ![t] = "synthe_154"]
    /\ calls' = calls + 1
    /\ result' = [result EXCEPT ![t] = NoResult]
    /\ trace' = [trace EXCEPT ![t] = <<>>]
    /\ given' = [given EXCEPT ![t] = NoGiven]
    /\ UNCHANGED <<c_wav, size, wav_raw, heap, badFree, badRead, crossUse, loadVars>>

\* _synthe: koe.encode('sjis') is evaluated, then AquesTalk_Synthe is entered
synthe_call(t) ==
    /\ pc[t] = "synthe_154"
    /\ LET e == encode(koe[t]) IN
       IF e.ok
       THEN /\ pc' = [pc EXCEPT ![t] = "in_AquesTalk_Synthe"]
            /\ trace' = [trace EXCEPT ![t] =
                            Append(@, Event("AquesTalk_Synthe", NULL, e.bytes, speed[t]))]
            /\ UNCHANGED <<op, koe, speed, c_wav, size, wav_raw, result>>
       ELSE /\ pc' = [pc EXCEPT ![t] = "done"]
            /\ result' = [result EXCEPT ![t] = Raised("UnicodeEncodeError")]
            /\ DropFrame(t)
            /\ UNCHANGED <<op, trace>>
    /\ UNCHANGED <<given, heap, calls, badFree, badRead, crossUse, loadVars>>

\* variant: the pointer and the size are kept on the instance, which all
\* threads share, instead of in locals
AquesTalk_Synthe_return_OnSelf(t) ==
    /\ pc[t] = "in_AquesTalk_Synthe"
    /\ \/ \E code \in ErrorCodes :
            /\ c_wav' = [u \in Threads |-> NULL]
            /\ size' = [u \in Threads |-> code]
            /\ given' = [given EXCEPT ![t] = [ptr |-> NULL, size |-> code, data |-> <<>>]]
            /\ heap' = heap
       \/ \E a \in Addrs, data \in Buffers :
            /\ ~heap[a].live
            /\ heap' = [heap EXCEPT ![a] = [live |-> TRUE, data |-> data, owner |-> t]]
            /\ c_wav' = [u \in Threads |-> a]
            /\ size' = [u \in Threads |-> Len(data)]
            /\ given' = [given EXCEPT ![t] = [ptr |-> a, size |-> Len(data), data |-> data]]
    /\ pc' = [pc EXCEPT ![t] = "synthe_raw_118"]
    /\ UNCHANGED <<op, koe, speed, wav_raw, result, trace, calls,
                   badFree, badRead, crossUse, loadVars>>

\* the foreign AquesTalk_Synthe returns: a null pointer and an error code, or
\* a fresh buffer and its size; _synthe hands (c_wav or None, c_size.value) on
AquesTalk_Synthe_return(t) ==
    /\ pc[t] = "in_AquesTalk_Synthe"
    /\ \/ \E code \in ErrorCodes :
            /\ c_wav' = [c_wav EXCEPT ![t] = NULL]
            /\ size' = [size EXCEPT ![t] = code]
            /\ given' = [given EXCEPT ![t] = [ptr |-> NULL, size |-> code, data |-> <<>>]]
            /\ heap' = heap
       \/ \E a \in Addrs, data \in Buffers :
            /\ ~heap[a].live
            /\ heap' = [heap EXCEPT ![a] = [live |-> TRUE, data |-> data, owner |-> t]]
            /\ c_wav' = [c_wav EXCEPT ![t] = a]
            /\ size' = [size EXCEPT ![t] = Len(data)]
            /\ given' = [given EXCEPT ![t] = [ptr |-> a, size |-> Len(data), data |-> data]]
    /\ pc' = [pc EXCEPT ![t] = "synthe_raw_118"]
    /\ UNCHANGED <<op, koe, speed, wav_raw, result, trace, calls,
                   badFree, badRead, crossUse, loadVars>>

\* variant: the release is also called on the failure path, so
\* AquesTalk_FreeWave is handed the null pointer of a failed call
raise_if_null_FreeFirst(t) ==
    /\ pc[t] = "synthe_raw_118"
    /\ IF c_wav[t] = NULL
       THEN /\ pc' = [pc EXCEPT ![t] = "done"]
            /\ result' = [result EXCEPT ![t] = AquesTalkError(size[t])]
            /\ trace' = [trace EXCEPT ![t] =
                            Append(@, Event("AquesTalk_FreeWave", c_wav[t], <<>>, 0))]
            /\ badFree' = TRUE
            /\ DropFrame(t)
       ELSE /\ pc' = [pc EXCEPT ![t] = "synthe_raw_121"]
            /\ UNCHANGED <<koe, speed, c_wav, size, wav_raw, result, trace, badFree>>
    /\ UNCHANGED <<op, given, heap, calls, badRead, crossUse, loadVars>>

\* synthe_raw: if not c_wav: raise AquesTalkError(size)
raise_if_null(t) ==
    /\ pc[t] = "synthe_raw_118"
    /\ IF c_wav[t] = NULL
       THEN /\ pc' = [pc EXCEPT ![t] = "done"]
            /\ result' = [result EXCEPT ![t] = AquesTalkError(size[t])]
            /\ DropFrame(t)
       ELSE /\ pc' = [pc EXCEPT ![t] = "synthe_raw_121"]
            /\ UNCHANGED <<koe, speed, c_wav, size, wav_raw, result>>
    /\ UNCHANGED <<op, trace, given, heap, calls, badFree, badRead, crossUse, loadVars>>

\* synthe_raw: wav_raw = c_wav[:size]
copy_out(t) ==
    /\ pc[t] = "synthe_raw_121"
    /\ IF c_wav[t] \in Addrs /\ heap[c_wav[t]].live
       THEN /\ wav_raw' = [wav_raw EXCEPT ![t] = slice(heap[c_wav[t]].data, size[t])]
            /\ badRead' = badRead
            /\ crossUse' = (crossUse \/ heap[c_wav[t]].owner # t)
       ELSE /\ \E junk \in StaleReads : wav_raw' = [wav_raw EXCEPT ![t] = junk]
            /\ badRead' = TRUE
            /\ crossUse' = crossUse
    /\ trace' = [trace EXCEPT ![t] =
                    Append(@, Event("copy", c_wav[t], wav_raw'[t], size[t]))]
    /\ pc' = [pc EXCEPT ![t] = "synthe_raw_122"]
    /\ UNCHANGED <<op, koe, speed, c_wav, size, result, given, heap, calls,
                   badFree, loadVars>>

\* synthe_raw: self._freewave(c_wav) enters the foreign AquesTalk_FreeWave,
\* which releases the buffer
freewave_call(t) ==
    /\ pc[t] = "synthe_raw_122"
    /\ IF c_wav[t] \in Addrs /\ heap[c_wav[t]].live
       THEN /\ heap' = [heap EXCEPT ![c_wav[t]] = FreeCell]
            /\ badFree' = badFree
            /\ crossUse' = (crossUse \/ heap[c_wav[t]].owner # t)
       ELSE /\ heap' = heap
            /\ badFree' = TRUE
            /\ crossUse' = crossUse
    /\ trace' = [trace EXCEPT ![t] =
                    Append(@, Event("AquesTalk_FreeWave", c_wav[t], <<>>, 0))]
    /\ pc' = [pc EXCEPT ![t] = "in_AquesTalk_FreeWave"]
    /\ UNCHANGED <<op, koe, speed, c_wav, size, wav_raw, result, given, calls,
                   badRead, loadVars>>

\* the foreign AquesTalk_FreeWave returns
freewave_return(t) ==
    /\ pc[t] = "in_AquesTalk_FreeWave"
    /\ pc' = [pc EXCEPT ![t] = "synthe_raw_124"]
    /\ UNCHANGED <<op, koe, speed, c_wav, size, wav_raw, result, trace, given,
                   heap, calls, badFree, badRead, crossUse, loadVars>>

\* synthe_raw: return wav_raw, to the caller or to synthe
return_raw(t) ==
    /\ pc[t] = "synthe_raw_124"
    /\ trace' = [trace EXCEPT ![t] = Append(@, Event("return", NULL, wav_raw[t], 0))]
    /\ IF op[t] = "synthe_raw"
       THEN /\ pc' = [pc EXCEPT ![t] = "done"]
            /\ result' = [result EXCEPT ![t] = Returned("bytes", wav_raw[t])]
       ELSE /\ pc' = [pc EXCEPT ![t] = "synthe_89"]
            /\ result' = [result EXCEPT ![t] = Returned("pending", wav_raw[t])]
    /\ DropFrame(t)
    /\ UNCHANGED <<op, given, heap, calls, badFree, badRead, crossUse, loadVars>>

\* variant: a failure of wave.open is reported as AquesTalkError(100)
synthe_parse_AsAquesTalkError(t) ==
    /\ pc[t] = "synthe_89"
    /\ LET parsed == wave_open(result[t].value) IN
       result' = [result EXCEPT ![t] =
                     IF parsed = "Wave_read"
                     THEN Returned("Wave_read", result[t].value)
                     ELSE AquesTalkError(100)]
    /\ pc' = [pc EXCEPT ![t] = "done"]
    /\ UNCHANGED <<op, koe, speed, c_wav, size, wav_raw, trace, given, heap,
                   calls, badFree, badRead, crossUse, loadVars>>

\* synthe: wav = wave.open(io.BytesIO(...), 'rb'); return wav
synthe_parse(t) ==
    /\ pc[t] = "synthe_89"
    /\ LET parsed == wave_open(result[t].value) IN
       result' = [result EXCEPT ![t] =
                     IF parsed = "Wave_read"
                     THEN Returned("Wave_read", result[t].value)
                     ELSE Raised(parsed)]
    /\ pc' = [pc EXCEPT ![t] = "done"]
    /\ UNCHANGED <<op, koe, speed, c_wav, size, wav_raw, trace, given, heap,
                   calls, badFree, badRead, crossUse, loadVars>>

\* ------------------------------------------------------------ specifications
InitSynthe ==
    /\ pc = [t \in Threads |-> "idle"]
    /\ op = [t \in Threads |-> "none"]
    /\ koe = [t \in Threads |-> <<>>]
    /\ speed = [t \in Threads |-> 0]
    /\ c_wav = [t \in Threads |-> NULL]
    /\ size = [t \in Threads |-> 0]
    /\ wav_raw = [t \in Threads |-> <<>>]
    /\ result = [t \in Threads |-> NoResult]
    /\ trace = [t \in Threads |-> <<>>]
    /\ given = [t \in Threads |-> NoGiven]
    /\ heap = [a \in Addrs |-> FreeCell]
    /\ calls = 0
    /\ badFree = FALSE
    /\ badRead = FALSE
    /\ crossUse = FALSE

\* one instance, loaded from the package's f1 library, shared by the threads
Init ==
    /\ fs = [p \in Paths |-> IF p[2] = "f1" THEN "d09ba89e04fc6a848377cb695b7c227a"
                             ELSE NoFile]
    /\ ld = load([isEnum |-> TRUE, name |-> "f1"], TRUE)
            @@ [call |-> "load", flag |-> TRUE]
    /\ InitSynthe

Next ==
    \E t \in Threads :
        \/ Call(t)
        \/ synthe_call(t)
        \/ AquesTalk_Synthe_return(t)
        \/ raise_if_null(t)
        \/ copy_out(t)
        \/ freewave_call(t)
        \/ freewave_return(t)
        \/ return_raw(t)
        \/ synthe_parse(t)

Spec == Init /\ [][Next]_vars

\* the loader on its own: any files at the modelled paths, no load made yet
InitLoad ==
    /\ fs \in [Paths -> FileDigests]
    /\ ld = NoLoad
    /\ InitSynthe

NextLoad == LoadFromPath \/ Load

SpecLoad == InitLoad /\ [][NextLoad]_vars

\* ------------------------------------------------------------------ helpers
Events(t, ev) == {i \in 1..Len(trace[t]) : trace[t][i].ev = ev}
EventNames(t) == [i \in 1..Len(trace[t]) |-> trace[t][i].ev]
SuccessOrder == <<"AquesTalk_Synthe", "copy", "AquesTalk_FreeWave", "return">>
InForeign(t) == pc[t] \in {"in_AquesTalk_Synthe", "in_AquesTalk_FreeWave"}
Quiescent == \A t \in Threads : pc[t] \in {"idle", "done"}
\* the foreign AquesTalk_Synthe of thread t's current call has returned
ForeignReturned(t) ==
    /\ trace[t] # <<>>
    /\ pc[t] \notin {"synthe_154", "in_AquesTalk_Synthe"}

\* ------------------------------------------------------------------- claims

\* C1: in every call of synthe_raw a non-null pointer returned by the foreign
\* synthesize call is handed to AquesTalk_FreeWave exactly once, that pointer
\* and no other; after a null pointer AquesTalk_FreeWave is not invoked; no
\* pointer is released twice and none is left unreleased once the calls end.
C1_FreeExactlyOnce ==
    /\ ~badFree
    /\ \A t \in Threads :
        /\ \A i \in Events(t, "AquesTalk_FreeWave") :
              given[t].ptr # NULL /\ trace[t][i].ptr = given[t].ptr
        /\ Cardinality(Events(t, "AquesTalk_FreeWave")) <= 1
        /\ (pc[t] = "done" /\ given[t].ptr # NULL)
              => Cardinality(Events(t, "AquesTalk_FreeWave")) = 1
        /\ (ForeignReturned(t) /\ given[t].ptr = NULL)
              => Events(t, "AquesTalk_FreeWave") = {}
    /\ Quiescent => \A a \in Addrs : ~heap[a].live

C1_Witness ==
    \E t, u \in Threads :
        /\ pc[t] = "done" /\ given[t].ptr # NULL
        /\ Cardinality(Events(t, "AquesTalk_FreeWave")) = 1
        /\ pc[u] = "done" /\ result[u].kind = "AquesTalkError"

\* C2: load_from_path with check_voice_type = True on a file whose digest is
\* registered for a variant other than the hint returns a session of the
\* registered variant.
C2_OverrideWhenVerifying ==
    (/\ ld.call = "load_from_path"
     /\ ld.flag
     /\ FileAt(ld.path) \in DOMAIN DLL_MD5_DICT
     /\ DLL_MD5_DICT[FileAt(ld.path)] # ld.hint)
    => (ld.outcome = "ok" /\ ld.voice_type = DLL_MD5_DICT[FileAt(ld.path)])

\* C3: load_from_path with check_voice_type = False never consults the digest
\* table and returns a session of the variant the caller named.
C3_TrustHintWhenNotVerifying ==
    (/\ ld.call = "load_from_path"
     /\ ~ld.flag
     /\ FileAt(ld.path) # NoFile)
    => (ld.outcome = "ok" /\ ld.voice_type = ld.hint /\ ~ld.consulted)

\* C4: load_from_path on a loadable file whose digest is not registered
\* succeeds with the caller's variant, whatever check_voice_type is.
C4_UnknownDigestKeepsHint ==
    (/\ ld.call = "load_from_path"
     /\ FileAt(ld.path) # NoFile
     /\ FileAt(ld.path) \notin DOMAIN DLL_MD5_DICT)
    => (ld.outcome = "ok" /\ ld.voice_type = ld.hint)

\* C5: when the foreign synthesize call returns a null pointer with code c,
\* the call raises AquesTalkError with err = c, and with the table's message
\* for c when c is in the table (101: out of memory) and the one unknown-error
\* message when it is not (999).
C5_ErrorTranslation ==
    \A t \in Threads :
        /\ (pc[t] = "done" /\ ForeignReturned(t) /\ given[t].ptr = NULL) =>
              /\ result[t].kind = "AquesTalkError"
              /\ result[t].err = given[t].size
              /\ (given[t].size \in MessageCodes
                    => result[t].message = messages[given[t].size])
              /\ (given[t].size \notin MessageCodes
                    => result[t].message = "unknown error")
              /\ (given[t].size = 101 => result[t].message = "out of memory")
        /\ result[t].kind = "AquesTalkError"
              => (ForeignReturned(t) /\ given[t].ptr = NULL)

C5_Witness ==
    \E t, u \in Threads :
        /\ pc[t] = "done" /\ given[t].ptr = NULL /\ given[t].size = 101
        /\ result[t].kind = "AquesTalkError" /\ result[t].err = 101
        /\ pc[u] = "done" /\ given[u].ptr = NULL /\ given[u].size = 999
        /\ result[u].kind = "AquesTalkError" /\ result[u].err = 999

\* C6: no two threads are at the same time inside the foreign
\* AquesTalk_Synthe / AquesTalk_FreeWave of the one instance.
C6_ForeignCallsSerialized ==
    Cardinality({t \in Threads : InForeign(t)}) <= 1

\* C7: a call whose koe holds a character without a Shift_JIS code ends with
\* UnicodeEncodeError (not AquesTalkError) and without any foreign
\* AquesTalk_Synthe or AquesTalk_FreeWave having been invoked in it.
Unencodable(k) == \E i \in 1..Len(k) : k[i] \notin {"a", "hiragana_a", "halfwidth_a"}

C7_EncodingErrorBeforeForeignCall ==
    /\ [](\A t \in Threads :
            /\ Unencodable(koe[t]) => (pc[t] = "synthe_154" /\ trace[t] = <<>>)
            /\ result[t].kind = "UnicodeEncodeError"
                  => (pc[t] = "done" /\ trace[t] = <<>> /\ given[t] = NoGiven))
    /\ [][\A t \in Threads :
            (Unencodable(koe[t]) /\ pc'[t] # pc[t])
               => /\ pc'[t] = "done"
                  /\ result'[t].kind = "UnicodeEncodeError"
                  /\ trace'[t] = <<>>
                  /\ heap' = heap]_vars

C7_Witness ==
    \E t \in Threads :
        /\ pc[t] = "done"
        /\ result[t].kind = "UnicodeEncodeError"
        /\ op[t] = "synthe"

\* C8: when synthe gets a non-null buffer whose bytes are no valid WAV file,
\* the buffer has been copied and released exactly once before wave.open is
\* reached, and the call raises wave.open's error, not AquesTalkError.
C8_ParseFailureAfterRelease ==
    \A t \in Threads :
        (/\ op[t] = "synthe"
         /\ pc[t] \in {"synthe_89", "done"}
         /\ given[t].ptr # NULL
         /\ wave_open(given[t].data) # "Wave_read")
        => /\ EventNames(t) = SuccessOrder
           /\ trace[t][2].ptr = given[t].ptr
           /\ trace[t][2].bytes = given[t].data
           /\ trace[t][3].ptr = given[t].ptr
           /\ \A a \in Addrs : heap[a].live => heap[a].owner # t
           /\ pc[t] = "done" => result[t].kind \in {"wave.Error", "EOFError"}

C8_Witness ==
    \E t \in Threads :
        /\ op[t] = "synthe"
        /\ pc[t] = "done"
        /\ given[t].ptr # NULL
        /\ result[t].kind = "wave.Error"
        /\ EventNames(t) = SuccessOrder

C10_BuffersLocalToCalls ==
    /\ ~crossUse /\ ~badFree /\ ~badRead
    /\ \A a \in Addrs : heap[a].live =>
          /\ heap[a].owner \in Threads
          /\ c_wav[heap[a].owner] = a
          /\ given[heap[a].owner].ptr = a
          /\ pc[heap[a].owner] \in {"synthe_raw_118", "synthe_raw_121", "synthe_raw_122"}
          /\ \A u \in Threads \ {heap[a].owner} :
                c_wav[u] = a => pc[u] \in {"in_AquesTalk_FreeWave", "synthe_raw_124"}
    /\ \A t \in Threads :
          /\ Events(t, "AquesTalk_FreeWave") # {} => Events(t, "copy") # {}
          /\ \A i \in Events(t, "copy") \cup Events(t, "AquesTalk_FreeWave") :
                trace[t][i].ptr = given[t].ptr
          /\ result[t].kind \in {"bytes", "pending", "Wave_read"}
                => result[t].value = given[t].data
          /\ result[t].kind = "AquesTalkError"
                => (given[t].ptr = NULL /\ result[t].err = given[t].size)

C10_Witness ==
    \E t, u \in Threads :
        /\ t # u
        /\ pc[t] = "in_AquesTalk_FreeWave"
        /\ pc[u] = "synthe_raw_122"
        /\ heap[c_wav[u]].live
        /\ given[t].data # given[u].data

====
